---- MODULE Spec2Model ----
(***************************************************************************)
(* Background models of deerlab/bg_models.py (bg_exp, bg_hom3d,            *)
(* bg_hom3dex, bg_homfractal, bg_strexp, bg_prodstrexp, bg_sumstrexp,      *)
(* bg_poly1, bg_poly2, bg_poly3) and their shared argument parser          *)
(* _parsargs.                                                              *)
(*                                                                         *)
(* Numbers.  A real number is an exact rational <<n, d>> in lowest terms,  *)
(* d > 0; floating-point rounding is not modelled.  The value of one decay *)
(* sample is a finite sum of terms  c * exp(U * a)  with c, a rational and *)
(* U a named nonzero real constant (a "unit") that stands for the product  *)
(* of the physical constants of a model; the sum is kept in normal form    *)
(* (one term per distinct exponent, no zero coefficient, exponent 0        *)
(* written with the unit UOne), so equal normal forms are equal reals and, *)
(* for terms of one unit, distinct normal forms are distinct reals.  Where *)
(* the code compares a quantity that holds such a constant (dR in          *)
(* bg_hom3dex) the constant is rounded to a rational.  A numpy array is a  *)
(* record [dtype, vals]; the dtype decides whether a store into the array  *)
(* truncates.                                                              *)
(***************************************************************************)
EXTENDS Integers, Sequences, FiniteSets, TLC

\* ------------------------------------------------------------ rationals

RECURSIVE GCD(_, _)
GCD(a, b) == IF b = 0 THEN a ELSE GCD(b, a % b)

IAbs(n) == IF n < 0 THEN -n ELSE n

\* n/d in lowest terms with a positive denominator (d # 0)
Q(n, d) ==
    LET g == GCD(IAbs(n), IAbs(d))
        s == IF d < 0 THEN -1 ELSE 1
    IN  << (s * n) \div g, (s * d) \div g >>

Zero == << 0, 1 >>
One  == << 1, 1 >>
Half == << 1, 2 >>

RAdd(x, y) == Q(x[1] * y[2] + y[1] * x[2], x[2] * y[2])
RNeg(x)    == << -x[1], x[2] >>
RSub(x, y) == RAdd(x, RNeg(y))
RMul(x, y) == Q(x[1] * y[1], x[2] * y[2])
RDiv(x, y) == Q(x[1] * y[2], x[2] * y[1])
RAbs(x)    == << IAbs(x[1]), x[2] >>
RLt(x, y)  == x[1] * y[2] < y[1] * x[2]
RIsInt(x)  == x[2] = 1

\* conversion of a float to a numpy integer: truncation toward zero
RTrunc(x) == IF x[1] >= 0 THEN << x[1] \div x[2], 1 >>
                          ELSE << -((-x[1]) \div x[2]), 1 >>

\* x ** k for a natural k; numpy gives 0 ** 0 = 1
RECURSIVE RPow(_, _)
RPow(x, k) == IF k = 0 THEN One ELSE RMul(x, RPow(x, k - 1))

\* ------------------------------------------------- values of a decay sample

\* The named real constants that multiply an exponent.
\*   "one"  : 1                       (bg_exp, bg_strexp, bg_prodstrexp, bg_sumstrexp)
\*   "k3d"  : 8 pi^2/(9 sqrt 3) * D * 1e-6 * (1e-6 * 1e3 * NA)     (bg_hom3d, bg_hom3dex)
\*   "kf3"  : (4 pi/3)(pi/2)(4/(3 sqrt 3)) * (1e-6 * 1e-3 * NA) * D * 1e-6
\*                                                    (bg_homfractal, d = 3)
\*   "frac" : (4 pi/3) * cos(d pi/6) Gamma(-d/3) * L * (1e-6 * 10^-d * NA)
\*            * D^(d/3) * (base * 1e-6)^(d/3), where L is entry `part` of the
\*            pair returned by the quadrature      (bg_homfractal, d # 3)
Unit(name, d, part, base) == [name |-> name, d |-> d, part |-> part, base |-> base]
UOne  == Unit("one", Zero, 0, One)
UK3D  == Unit("k3d", Zero, 0, One)
UKF3  == Unit("kf3", Zero, 0, One)
UFrac(d, part, base) == Unit("frac", d, part, base)

\* the real number r
Const(r) == IF r = Zero THEN {} ELSE {[c |-> r, u |-> UOne, a |-> Zero]}
\* exp(u * a)
Exp(u, a) == {[c |-> One, u |-> (IF a = Zero THEN UOne ELSE u), a |-> a]}
\* a sample computed through a non-finite intermediate (a division by zero, a
\* pole of the gamma function): 0, inf or nan, whichever the signs give
NonFinite == {[c |-> Zero, u |-> Unit("nonfinite", Zero, 0, One), a |-> Zero]}

VScale(r, V) ==
    IF V = NonFinite THEN NonFinite
    ELSE IF r = Zero THEN {}
    ELSE {[c |-> RMul(r, x.c), u |-> x.u, a |-> x.a] : x \in V}

VAdd(V, W) ==
    IF V = NonFinite \/ W = NonFinite THEN NonFinite
    ELSE LET keys == {<<x.u, x.a>> : x \in V \cup W}
             coef(S, k) == IF \E x \in S : <<x.u, x.a>> = k
                           THEN (CHOOSE x \in S : <<x.u, x.a>> = k).c
                           ELSE Zero
             sum == {[c |-> RAdd(coef(V, k), coef(W, k)), u |-> k[1], a |-> k[2]] : k \in keys}
         IN  {x \in sum : x.c # Zero}

\* the product of two exponentials exp(a) * exp(b) with the unit "one"
ExpMul(V, W) ==
    LET x == CHOOSE x \in V : TRUE
        y == CHOOSE y \in W : TRUE
    IN  Exp(UOne, RAdd(x.a, y.a))

VOne == Const(One)

\* ------------------------------------------------------- python objects

\* An array_like or a scalar argument.  vals is the sequence of its numbers; the
\* dtype is "int" when every number was given as an integer and "float" otherwise.
Array(dtype, vals)  == [kind |-> "array", dtype |-> dtype, vals |-> vals]
Scalar(dtype, val)  == [kind |-> "scalar", dtype |-> dtype, vals |-> << val >>]

\* bug: no coercion, a scalar stays a scalar
atleast_1d_none(x) == x

\* np.atleast_1d: a scalar becomes an array of length 1
atleast_1d(x) == [x EXCEPT !.kind = "array"]

\* what a store of the float or integer x into an array of this dtype keeps
Cast(dtype, x) == IF dtype = "int" THEN RTrunc(x) ELSE x

Reverse(s) == [i \in 1..Len(s) |-> s[Len(s) + 1 - i]]

\* ------------------------------------------------------------- results

NoInfo == [Parameters |-> <<>>, Units |-> <<>>, Start |-> <<>>, Lower |-> <<>>, Upper |-> <<>>]
Raised(e, want, got) ==
    [kind |-> "error", err |-> e, want |-> want, got |-> got, B |-> <<>>, info |-> NoInfo]
Curve(B) == [kind |-> "curve", err |-> "", want |-> 0, got |-> 0, B |-> B, info |-> NoInfo]
Descr(i) == [kind |-> "info", err |-> "", want |-> 0, got |-> 0, B |-> <<>>, info |-> i]
NoCall   == [kind |-> "none", err |-> "", want |-> 0, got |-> 0, B |-> <<>>, info |-> NoInfo]

\* ------------------------------------------------------------ _parsargs

\* bug: the default of the modulation depth is 0
DefaultLam_zero == Scalar("int", Zero)

\* the modulation depth a two-argument call gets
DefaultLam == Scalar("int", One)

\* bug: only a vector that is too short is rejected (< for !=)
_parsargs_short(args, npar) ==
    IF Len(args) \notin {2, 3} THEN Raised("TypeError", 0, Len(args))
    ELSE LET t   == atleast_1d(args[1])
             p   == atleast_1d(args[2])
             lam == IF Len(args) = 2 THEN DefaultLam ELSE args[3]
         IN  IF p.kind = "scalar" THEN Raised("TypeError_len", 0, 0)
             ELSE IF Len(p.vals) < npar
             THEN Raised("ValueError", npar, Len(p.vals))
             ELSE [kind |-> "args", t |-> t, p |-> p, lam |-> lam]

\* bug: arguments after the third are ignored instead of rejected
_parsargs_extra(args, npar) ==
    IF Len(args) < 2 THEN Raised("TypeError", 0, Len(args))
    ELSE LET t   == atleast_1d(args[1])
             p   == atleast_1d(args[2])
             lam == IF Len(args) = 2 THEN DefaultLam ELSE args[3]
         IN  IF p.kind = "scalar" THEN Raised("TypeError_len", 0, 0)
             ELSE IF Len(p.vals) # npar
             THEN Raised("ValueError", npar, Len(p.vals))
             ELSE [kind |-> "args", t |-> t, p |-> p, lam |-> lam]

\* (len(p) of a scalar raises a TypeError: a scalar has no len())
_parsargs(args, npar) ==
    IF Len(args) \notin {2, 3} THEN Raised("TypeError", 0, Len(args))
    ELSE LET t   == atleast_1d(args[1])
             p   == atleast_1d(args[2])
             lam == IF Len(args) = 2 THEN DefaultLam ELSE args[3]
         IN  IF p.kind = "scalar" THEN Raised("TypeError_len", 0, 0)
             ELSE IF Len(p.vals) # npar
             THEN Raised("ValueError", npar, Len(p.vals))
             ELSE [kind |-> "args", t |-> t, p |-> p, lam |-> lam]

\* what a call did: its result, the lines it wrote to the standard output and the
\* number of times it invoked the lookup-table provider
\* (locals: the reduction factor bg_hom3dex assigned to each sample; store: the
\* contents the call left in the array param, if it wrote to it)
Effect(out, printed, nloads, locals) ==
    [out |-> out, printed |-> printed, loads |-> nloads, locals |-> locals, store |-> <<>>]
Pure(out) == Effect(out, <<>>, 0, <<>>)

Num(n) == << n, 1 >>
Hundredth == << 1, 100 >>
\* stands for np.finfo(float).eps = 2^-52: positive and below every positive
\* number the model computes with
Eps == << 1, 1000000 >>

\* --------------------------------------------------------------- bg_exp

Info_exp ==
    [Parameters |-> << "Decay Rate" >>,
     Units      |-> << "us-1" >>,
     Start      |-> << << 35, 100 >> >>,
     Lower      |-> << Num(0) >>,
     Upper      |-> << Num(200) >>]

bg_exp(args) ==
    IF Len(args) = 0 THEN Pure(Descr(Info_exp))
    ELSE LET a == _parsargs(args, 1)
         IN  IF a.kind = "error" THEN Pure(a)
             ELSE LET t     == atleast_1d(a.t).vals
                      param == atleast_1d(a.p).vals
                      lam   == a.lam.vals[1]
                      kappa == param[1]
                  IN  Pure(Curve([i \in 1..Len(t) |->
                          Exp(UOne, RNeg(RMul(RMul(lam, kappa), RAbs(t[i]))))]))

\* ------------------------------------------------------------- bg_hom3d

Info_hom3d ==
    [Parameters |-> << "Concentration of pumped spins" >>,
     Units      |-> << "uM" >>,
     Start      |-> << Num(50) >>,
     Lower      |-> << Hundredth >>,
     Upper      |-> << Num(5000) >>]

\* bug: t is used without np.abs
bg_hom3d_noabs(args) ==
    IF Len(args) = 0 THEN Pure(Descr(Info_hom3d))
    ELSE LET a == _parsargs(args, 1)
         IN  IF a.kind = "error" THEN Pure(a)
             ELSE LET t    == a.t.vals
                      conc == a.p.vals
                      lam  == a.lam.vals[1]
                  IN  Pure(Curve([i \in 1..Len(t) |->
                          Exp(UK3D, RNeg(RMul(RMul(lam, conc[1]), t[i])))]))

\* bug: the sign of the exponent is lost, B = exp(lam*kappa*abs(t))
bg_hom3d_grow(args) ==
    IF Len(args) = 0 THEN Pure(Descr(Info_hom3d))
    ELSE LET a == _parsargs(args, 1)
         IN  IF a.kind = "error" THEN Pure(a)
             ELSE LET t    == a.t.vals
                      conc == a.p.vals
                      lam  == a.lam.vals[1]
                  IN  Pure(Curve([i \in 1..Len(t) |->
                          Exp(UK3D, RMul(RMul(lam, conc[1]), RAbs(t[i])))]))

\* conc is the whole parameter array (of length 1), broadcast against t
bg_hom3d(args) ==
    IF Len(args) = 0 THEN Pure(Descr(Info_hom3d))
    ELSE LET a == _parsargs(args, 1)
         IN  IF a.kind = "error" THEN Pure(a)
             ELSE LET t    == a.t.vals
                      conc == a.p.vals
                      lam  == a.lam.vals[1]
                  IN  Pure(Curve([i \in 1..Len(t) |->
                          Exp(UK3D, RNeg(RMul(RMul(lam, conc[1]), RAbs(t[i]))))]))

\* ------------------------------------------- stretched exponential models

\* abs(t) ** d for a stretch factor d that is a natural number (the model draws
\* the stretch factors from the naturals; 0 ** 0 = 1)
StrPow(x, d) == RPow(RAbs(x), d[1])

\* bug: the stretched time is left out, np.exp(-lam*kappa)
StrExp_flat(lam, kappa, x, d) == Exp(UOne, RNeg(RMul(lam, kappa)))

\* np.exp(-lam*kappa*abs(t)**d) at one sample
StrExp(lam, kappa, x, d) == Exp(UOne, RNeg(RMul(RMul(lam, kappa), StrPow(x, d))))

Info_strexp ==
    [Parameters |-> << "Decay Rate", "Stretch factor" >>,
     Units      |-> << "us-1", "" >>,
     Start      |-> << << 1, 4 >>, Num(1) >>,
     Lower      |-> << Num(0), Num(0) >>,
     Upper      |-> << Num(200), Num(6) >>]

bg_strexp(args) ==
    IF Len(args) = 0 THEN Pure(Descr(Info_strexp))
    ELSE LET a == _parsargs(args, 2)
         IN  IF a.kind = "error" THEN Pure(a)
             ELSE LET t     == a.t.vals
                      lam   == a.lam.vals[1]
                      kappa == a.p.vals[1]
                      d     == a.p.vals[2]
                  IN  Pure(Curve([i \in 1..Len(t) |-> StrExp(lam, kappa, t[i], d)]))

Info_prodstrexp ==
    [Parameters |-> << "Decay Rate of 1st component", "Stretch factor of 1st component",
                       "Decay Rate of 2nd component", "Stretch factor of 2nd component" >>,
     Units      |-> << "us-1", "", "us-1", "" >>,
     Start      |-> << << 1, 4 >>, Num(1), << 1, 4 >>, Num(1) >>,
     Lower      |-> << Num(0), Num(0), Num(0), Num(0) >>,
     Upper      |-> << Num(200), Num(6), Num(200), Num(6) >>]

bg_prodstrexp(args) ==
    IF Len(args) = 0 THEN Pure(Descr(Info_prodstrexp))
    ELSE LET a == _parsargs(args, 4)
         IN  IF a.kind = "error" THEN Pure(a)
             ELSE LET t      == a.t.vals
                      lam    == a.lam.vals[1]
                      kappa1 == a.p.vals[1]
                      d1     == a.p.vals[2]
                      kappa2 == a.p.vals[3]
                      d2     == a.p.vals[4]
                  IN  Pure(Curve([i \in 1..Len(t) |->
                          ExpMul(StrExp(lam, kappa1, t[i], d1),
                                 StrExp(lam, kappa2, t[i], d2))]))

\* bug: the unit of the amplitude is missing
Info_sumstrexp_units ==
    [Parameters |-> << "Decay Rate of 1st component", "Stretch factor of 1st component",
                       "Amplitude of 1st component",
                       "Decay Rate of 2nd component", "Stretch factor of 2nd component" >>,
     Units      |-> << "us-1", "", "us-1", "" >>,
     Start      |-> << << 1, 4 >>, Num(1), Half, << 1, 4 >>, Num(1) >>,
     Lower      |-> << Num(0), Num(0), Num(0), Num(0), Num(0) >>,
     Upper      |-> << Num(200), Num(6), Num(1), Num(200), Num(6) >>]

Info_sumstrexp ==
    [Parameters |-> << "Decay Rate of 1st component", "Stretch factor of 1st component",
                       "Amplitude of 1st component",
                       "Decay Rate of 2nd component", "Stretch factor of 2nd component" >>,
     Units      |-> << "us-1", "", "", "us-1", "" >>,
     Start      |-> << << 1, 4 >>, Num(1), Half, << 1, 4 >>, Num(1) >>,
     Lower      |-> << Num(0), Num(0), Num(0), Num(0), Num(0) >>,
     Upper      |-> << Num(200), Num(6), Num(1), Num(200), Num(6) >>]

bg_sumstrexp(args) ==
    IF Len(args) = 0 THEN Pure(Descr(Info_sumstrexp))
    ELSE LET a == _parsargs(args, 5)
         IN  IF a.kind = "error" THEN Pure(a)
             ELSE LET t      == a.t.vals
                      lam    == a.lam.vals[1]
                      kappa1 == a.p.vals[1]
                      d1     == a.p.vals[2]
                      w1     == a.p.vals[3]
                      kappa2 == a.p.vals[4]
                      d2     == a.p.vals[5]
                  IN  Pure(Curve([i \in 1..Len(t) |->
                          VAdd(VScale(w1, StrExp(lam, kappa1, t[i], d1)),
                               VScale(RSub(One, w1), StrExp(lam, kappa2, t[i], d2)))]))

\* ----------------------------------------------------- polynomial models

\* np.polyval(p, x): Horner's rule over the coefficients in descending power
RECURSIVE Horner(_, _, _, _)
Horner(p, x, i, y) ==
    IF i > Len(p) THEN y ELSE Horner(p, x, i + 1, RAdd(RMul(y, x), p[i]))
polyval(p, x) == Horner(p, x, 1, Zero)

\* bug: np.flip(param) without np.copy, a view of param
FlipCopy_view(param) == [view |-> TRUE, dtype |-> param.dtype, vals |-> Reverse(param.vals)]

\* np.copy(np.flip(param)): a new array with the entries of param reversed
FlipCopy(param) == [view |-> FALSE, dtype |-> param.dtype, vals |-> Reverse(param.vals)]

\* p = np.copy(np.flip(param)); p[:-1] = lam*p[:-1]
\* the products are stored into p, an array of the dtype of param
ScaledCoefs(param, l) ==
    LET q == FlipCopy(param).vals
    IN  [i \in 1..Len(q) |->
            IF i < Len(q) THEN Cast(param.dtype, RMul(l, q[i])) ELSE q[i]]

\* what the store p[:-1] = ... leaves in param: nothing when p is a copy, the
\* scaled coefficients (in the order of param) when p is a view of param
PolyStore(a) ==
    IF FlipCopy(a.p).view THEN << Reverse(ScaledCoefs(a.p, a.lam.vals[1])) >> ELSE <<>>

\* B = np.polyval(p, abs(t))
PolyCurve(a) ==
    LET p == ScaledCoefs(a.p, a.lam.vals[1])
        t == a.t.vals
    IN  Curve([i \in 1..Len(t) |-> Const(polyval(p, RAbs(t[i])))])

Info_poly1 ==
    [Parameters |-> << "Intercept", "1st-order coefficient" >>,
     Units      |-> << "", "us-1" >>,
     Start      |-> << Num(1), Num(-1) >>,
     Lower      |-> << Num(0), Num(-200) >>,
     Upper      |-> << Num(200), Num(200) >>]

\* print(param) before and after the computation
bg_poly1(args) ==
    IF Len(args) = 0 THEN Pure(Descr(Info_poly1))
    ELSE LET a == _parsargs(args, 2)
         IN  IF a.kind = "error" THEN Pure(a)
             ELSE [Effect(PolyCurve(a), << a.p.vals, a.p.vals >>, 0, <<>>)
                      EXCEPT !.store = PolyStore(a)]

Info_poly2 ==
    [Parameters |-> << "Intercept", "1st-order coefficient", "2nd-order coefficient" >>,
     Units      |-> << "", "us-1", "us-2" >>,
     Start      |-> << Num(1), Num(-1), Num(-1) >>,
     Lower      |-> << Num(0), Num(-200), Num(-200) >>,
     Upper      |-> << Num(200), Num(200), Num(200) >>]

bg_poly2(args) ==
    IF Len(args) = 0 THEN Pure(Descr(Info_poly2))
    ELSE LET a == _parsargs(args, 3)
         IN  IF a.kind = "error" THEN Pure(a)
             ELSE [Pure(PolyCurve(a)) EXCEPT !.store = PolyStore(a)]

Info_poly3 ==
    [Parameters |-> << "Intercept", "1st-order coefficient", "2nd-order coefficient",
                       "3rd-order coefficient" >>,
     Units      |-> << "", "us-1", "us-2", "us-3" >>,
     Start      |-> << Num(1), Num(-1), Num(-1), Num(-1) >>,
     Lower      |-> << Num(0), Num(-200), Num(-200), Num(-200) >>,
     Upper      |-> << Num(200), Num(200), Num(200), Num(200) >>]

bg_poly3(args) ==
    IF Len(args) = 0 THEN Pure(Descr(Info_poly3))
    ELSE LET a == _parsargs(args, 4)
         IN  IF a.kind = "error" THEN Pure(a)
             ELSE [Pure(PolyCurve(a)) EXCEPT !.store = PolyStore(a)]

\* ------------------------------------------------------------ bg_hom3dex

\* The dipolar constant A = (mu0/4/pi)*(ge*muB)**2/hbar = 3.2698e-19 m^3/s, that
\* is 326.98 nm^3/us, rounded; with it dR = A*abs(t*1e-6)/(R*1e-9)**3 is
\* DipolarA * |t| / R^3 for t in us and R in nm.
DipolarA == Num(327)
\* (3/2/pi)*np.sqrt(3) = 0.82699, rounded
AsymCoef == << 827, 1000 >>

\* the lookup-table provider: the two aligned sequences of the table
load_exvolume_redfactor(tab) == << tab.dR, tab.alpha >>

\* max(dR_tab)
RECURSIVE SeqMax(_, _, _)
SeqMax(s, i, m) ==
    IF i > Len(s) THEN m ELSE SeqMax(s, i + 1, IF RLt(m, s[i]) THEN s[i] ELSE m)
max(s) == SeqMax(s, 2, s[1])

\* np.interp(x, xp, fp) for increasing xp: linear between the neighbours of x, the
\* end values outside
interp(x, xp, fp) ==
    IF ~RLt(xp[1], x) THEN fp[1]
    ELSE IF ~RLt(x, xp[Len(xp)]) THEN fp[Len(xp)]
    ELSE LET i == CHOOSE i \in 1..(Len(xp) - 1) : ~RLt(x, xp[i]) /\ RLt(x, xp[i + 1])
         IN  RAdd(fp[i], RDiv(RMul(RSub(x, xp[i]), RSub(fp[i + 1], fp[i])),
                              RSub(xp[i + 1], xp[i])))

\* bug: small = dR <= max(dR_tab), the sample at the end of the table is
\* interpolated
ReductionSample_le(x, Rex, dR_tab, alphas_tab) ==
    LET dR    == RDiv(RMul(DipolarA, RAbs(x)), RPow(Rex, 3))
        small == ~RLt(max(dR_tab), dR)
    IN  IF small
        THEN [branch |-> "small", alpha |-> interp(dR, dR_tab, alphas_tab), finite |-> TRUE]
        ELSE [branch |-> "large", alpha |-> RSub(One, RDiv(AsymCoef, dR)), finite |-> TRUE]

\* The reduction factor of one sample for R # 0 and the branch that assigned it.
\* "small": interpolated; "large": 1 - (3/2/pi)*sqrt(3)/dR, which divides by
\* zero when dR = 0.
ReductionSample(x, Rex, dR_tab, alphas_tab) ==
    LET dR    == RDiv(RMul(DipolarA, RAbs(x)), RPow(Rex, 3))
        small == RLt(dR, max(dR_tab))
    IN  IF small
        THEN [branch |-> "small", alpha |-> interp(dR, dR_tab, alphas_tab), finite |-> TRUE]
        ELSE IF dR = Zero
        THEN [branch |-> "large", alpha |-> Zero, finite |-> FALSE]
        ELSE [branch |-> "large", alpha |-> RSub(One, RDiv(AsymCoef, dR)), finite |-> TRUE]

\* bug: no special case for R == 0, the division by (R*1e-9)**3 is a division by zero
ReductionFactor_nozero(t, Rex, dR_tab, alphas_tab) ==
    [i \in 1..Len(t) |->
        IF Rex = Zero THEN [branch |-> "large", alpha |-> Zero, finite |-> FALSE]
        ELSE ReductionSample(t[i], Rex, dR_tab, alphas_tab)]

\* The reduction factor of each sample.  "one": R == 0, alpha = 1 and dR is not
\* computed.
ReductionFactor(t, Rex, dR_tab, alphas_tab) ==
    IF Rex = Zero
    THEN [i \in 1..Len(t) |-> [branch |-> "one", alpha |-> One, finite |-> TRUE]]
    ELSE [i \in 1..Len(t) |-> ReductionSample(t[i], Rex, dR_tab, alphas_tab)]

Info_hom3dex ==
    [Parameters |-> << "Fractal Concentration of pumped spins", "Fractal dimensionality" >>,
     Units      |-> << "umol/dm^d", "" >>,
     Start      |-> << Num(50), Num(1) >>,
     Lower      |-> << Hundredth, Hundredth >>,
     Upper      |-> << Num(5000), Num(20) >>]

\* the statements after _parsargs: the table is loaded, then
\* K = 8*pi**2/9/sqrt(3)*A*abs(t*1e-6)*alpha; B = exp(-lam*conc*K)
hom3dex_compute(a, tab) ==
    LET tables == load_exvolume_redfactor(tab)
        t      == a.t.vals
        lam    == a.lam.vals[1]
        conc   == a.p.vals[1]
        Rex    == a.p.vals[2]
        alpha  == ReductionFactor(t, Rex, tables[1], tables[2])
    IN  Effect(Curve([i \in 1..Len(t) |->
                   IF ~alpha[i].finite THEN NonFinite
                   ELSE Exp(UK3D, RNeg(RMul(RMul(lam, conc),
                                  RMul(RAbs(t[i]), alpha[i].alpha))))]),
               <<>>, 1, alpha)

\* bug: the table is loaded before the test for the descriptor call
bg_hom3dex_eager(args, tab) ==
    IF Len(args) = 0 THEN Effect(Descr(Info_hom3dex), <<>>, 1, <<>>)
    ELSE LET a == _parsargs(args, 2)
         IN  IF a.kind = "error" THEN Effect(a, <<>>, 1, <<>>)
             ELSE hom3dex_compute(a, tab)

\* bug: the table is loaded before the arguments are parsed
bg_hom3dex_loadfirst(args, tab) ==
    IF Len(args) = 0 THEN Pure(Descr(Info_hom3dex))
    ELSE LET a == _parsargs(args, 2)
         IN  IF a.kind = "error" THEN Effect(a, <<>>, 1, <<>>)
             ELSE hom3dex_compute(a, tab)

bg_hom3dex(args, tab) ==
    IF Len(args) = 0 THEN Pure(Descr(Info_hom3dex))
    ELSE LET a == _parsargs(args, 2)
         IN  IF a.kind = "error" THEN Pure(a)
             ELSE hom3dex_compute(a, tab)

\* --------------------------------------------------------- bg_homfractal

Info_homfractal ==
    [Parameters |-> << "Fractal Concentration of pumped spins", "Fractal dimensionality" >>,
     Units      |-> << "umol/dm^d", "" >>,
     Start      |-> << Num(50), Num(3) >>,
     Lower      |-> << Hundredth, Eps >>,
     Upper      |-> << Num(5000), RSub(Num(6), Eps) >>]

\* scp.special.gamma(-d/3) is at a pole when d/3 is a natural number
GammaPole(d) == RIsInt(RDiv(d, Num(3))) /\ ~RLt(d, Zero)

\* exp(4*pi/3*c*L*lam*conc*D**(d/3)*abs(x*1e-6)**(d/3)) for d # 3 and a positive
\* d, where L is entry `part` of the pair (value, abserr) that
\* scp.integrate.quad returns
FracSample(d, part, lam, conc, x) ==
    IF GammaPole(d) THEN NonFinite
    ELSE IF x = Zero THEN VOne
    ELSE Exp(UFrac(d, part, RAbs(x)), RMul(lam, conc))

bg_homfractal(args) ==
    IF Len(args) = 0 THEN Pure(Descr(Info_homfractal))
    ELSE LET a == _parsargs(args, 2)
         IN  IF a.kind = "error" THEN Pure(a)
             ELSE LET t    == a.t.vals
                      lam  == a.lam.vals[1]
                      conc == a.p.vals[1]
                      d    == a.p.vals[2]
                  IN  \* 10**-d with d a numpy integer: a negative integer power
                      IF a.p.dtype = "int" /\ RLt(Zero, d)
                      THEN Pure(Raised("ValueError_negpow", 0, 0))
                      ELSE IF d = Num(3)
                      THEN Pure(Curve([i \in 1..Len(t) |->
                               Exp(UKF3, RNeg(RMul(RMul(lam, conc), RAbs(t[i]))))]))
                      \* Lam is the pair quad returns: the product with it has two
                      \* entries, which broadcast against the samples of t
                      ELSE IF Len(t) = 1
                      THEN Pure(Curve(<< FracSample(d, 1, lam, conc, t[1]),
                                         FracSample(d, 2, lam, conc, t[1]) >>))
                      ELSE IF Len(t) = 2
                      THEN Pure(Curve(<< FracSample(d, 1, lam, conc, t[1]),
                                         FracSample(d, 2, lam, conc, t[2]) >>))
                      ELSE Pure(Raised("ValueError_broadcast", 2, Len(t)))

\* ======================================================== the state machine

VARIABLES
    t,        \* the caller's time axis
    p,        \* the caller's parameter vector
    lam,      \* the caller's modulation depth
    table,    \* the lookup table the provider returns
    stdout,   \* the lines written to the standard output so far
    loads,    \* the number of invocations of the lookup-table provider so far
    last,     \* the call that has just returned and whose result the caller holds:
              \* model, number of arguments, what it did ("none": no result held)
    kept      \* a result the caller has kept from an earlier call: the call, the
              \* result as it was returned, and the descriptor object as the
              \* caller has it now

vars == << t, p, lam, table, stdout, loads, last, kept >>

MaxT     == 2      \* longest time axis
MaxPar   == 6      \* longest parameter vector
MaxArgs  == 4      \* most positional arguments of a call
MaxOut   == 2      \* most lines on the standard output
MaxLoads == 2      \* most invocations of the lookup-table provider

Models == {"bg_exp", "bg_hom3d", "bg_hom3dex", "bg_homfractal", "bg_strexp",
           "bg_prodstrexp", "bg_sumstrexp", "bg_poly1", "bg_poly2", "bg_poly3"}

\* the sequences over S of the lengths lo..hi
SeqsOf(S, lo, hi) == UNION {[1..n -> S] : n \in lo..hi}

TimeVals == {Num(-2), Num(0), Num(1)}
TimeAxes == {Array("float", s) : s \in SeqsOf(TimeVals, 1, MaxT)}
\* a time given as a scalar
TimeScalars == {Scalar("float", x) : x \in TimeVals}

\* the numbers a parameter vector may hold at each position
PosVals(i) ==
    CASE i = 1 -> {Num(1), Num(2)}
      [] i = 2 -> {Num(0), Num(2), Num(3)}
      [] i = 3 -> {Half, Num(1)}
      [] i = 5 -> {Num(2)}
      [] OTHER -> {Num(1)}

ParamVals(n) == {s \in [1..n -> UNION {PosVals(i) : i \in 1..n}] :
                    \A i \in 1..n : s[i] \in PosVals(i)}

\* a vector of integers given as integers is an integer array
ParamVecs ==
    UNION {{Array("float", s) : s \in ParamVals(n)}
           \cup {Array("int", s) : s \in {v \in ParamVals(n) :
                                            n > 0 /\ \A i \in 1..n : RIsInt(v[i])}}
           : n \in 0..MaxPar}

\* a parameter given as a scalar
ParamScalars == {Scalar(d, x) : d \in {"int", "float"}, x \in PosVals(1)}

Lams == {Scalar("float", Half), Scalar("int", One)}

\* two tables of the provider: increasing domain values, their reduction factors
Tables ==
    {[dR    |-> << Num(0), Num(10), Num(20) >>,
      alpha |-> << Num(0), << 9, 10 >>, << 19, 20 >> >>],
     [dR    |-> << Num(0), << 327, 8 >> >>,
      alpha |-> << Num(0), Num(1) >>]}

Idle == [model |-> "none", nargs |-> 0, out |-> NoCall, locals |-> <<>>]

\* nothing kept
NoKept == [model |-> "none", args |-> <<>>, out |-> NoCall, held |-> NoInfo]

Init ==
    /\ t \in TimeAxes \cup TimeScalars
    /\ p \in ParamVecs \cup ParamScalars
    /\ lam \in Lams
    /\ table \in Tables
    /\ stdout = <<>>
    /\ loads = 0
    /\ last = Idle
    /\ kept = NoKept

\* the first n of the positional arguments t, p, lam, lam, ...
ArgList(n) == [i \in 1..n |-> IF i = 1 THEN t ELSE IF i = 2 THEN p ELSE lam]

\* bug: a compute-mode call of bg_hom3dex overwrites the reduction factors of the
\* table it was given, which later calls then read
Return_clobber(model, n, eff) ==
    /\ last = Idle
    /\ Len(stdout) + Len(eff.printed) <= MaxOut
    /\ loads + eff.loads <= MaxLoads
    /\ stdout' = stdout \o eff.printed
    /\ loads' = loads + eff.loads
    /\ last' = [model |-> model, nargs |-> n, out |-> eff.out, locals |-> eff.locals]
    /\ table' = IF eff.loads > 0
                THEN [table EXCEPT !.alpha = [i \in DOMAIN table.alpha |-> One]]
                ELSE table
    /\ UNCHANGED << t, p, lam, kept >>

\* the call model(*ArgList(n)) returns or raises, having done eff; the caller's
\* sequences are ndarrays, which np.atleast_1d hands on as they are, so a store
\* into param is a store into the caller's p
Return(model, n, eff) ==
    /\ last = Idle
    /\ Len(stdout) + Len(eff.printed) <= MaxOut
    /\ loads + eff.loads <= MaxLoads
    /\ stdout' = stdout \o eff.printed
    /\ loads' = loads + eff.loads
    /\ last' = [model |-> model, nargs |-> n, out |-> eff.out, locals |-> eff.locals]
    /\ p' = IF eff.store # <<>> /\ p.kind = "array"
            THEN [p EXCEPT !.vals = eff.store[1]] ELSE p
    /\ UNCHANGED << t, lam, table, kept >>

Call_exp        == \E n \in 0..MaxArgs : Return("bg_exp", n, bg_exp(ArgList(n)))
Call_hom3d      == \E n \in 0..MaxArgs : Return("bg_hom3d", n, bg_hom3d(ArgList(n)))
Call_hom3dex    == \E n \in 0..MaxArgs : Return("bg_hom3dex", n, bg_hom3dex(ArgList(n), table))
Call_homfractal == \E n \in 0..MaxArgs : Return("bg_homfractal", n, bg_homfractal(ArgList(n)))
Call_strexp     == \E n \in 0..MaxArgs : Return("bg_strexp", n, bg_strexp(ArgList(n)))
Call_prodstrexp == \E n \in 0..MaxArgs : Return("bg_prodstrexp", n, bg_prodstrexp(ArgList(n)))
Call_sumstrexp  == \E n \in 0..MaxArgs : Return("bg_sumstrexp", n, bg_sumstrexp(ArgList(n)))
Call_poly1      == \E n \in 0..MaxArgs : Return("bg_poly1", n, bg_poly1(ArgList(n)))
Call_poly2      == \E n \in 0..MaxArgs : Return("bg_poly2", n, bg_poly2(ArgList(n)))
Call_poly3      == \E n \in 0..MaxArgs : Return("bg_poly3", n, bg_poly3(ArgList(n)))

\* the caller is done with the result of the call and drops it (results are
\* transient: created per call and discarded after use)
Discard ==
    /\ last # Idle
    /\ last' = Idle
    /\ UNCHANGED << t, p, lam, table, stdout, loads, kept >>

Next ==
    \/ Discard
    \/ Call_exp
    \/ Call_hom3d
    \/ Call_hom3dex
    \/ Call_homfractal
    \/ Call_strexp
    \/ Call_prodstrexp
    \/ Call_sumstrexp
    \/ Call_poly1
    \/ Call_poly2
    \/ Call_poly3

Spec == Init /\ [][Next]_vars

\* ------------------------------------------- a caller that keeps a result

\* the largest of a set of numbers
PickMax(S) == CHOOSE x \in S : \A y \in S : ~RLt(x, y)

\* one parameter vector of each length, and one scalar
KeptParams ==
    {v \in ParamVecs \cup ParamScalars :
        /\ v.dtype = "float"
        /\ \A i \in 1..Len(v.vals) : v.vals[i] = PickMax(PosVals(i))}

KeptTimes == {Array("float", << Num(1), Num(-2) >>), Array("float", << Num(0) >>),
              Scalar("float", Num(1))}

InitH ==
    /\ Init
    /\ t \in KeptTimes
    /\ p \in KeptParams

\* the descriptor as the caller has changed it: info['Start'] = []
Cleared(info) == [info EXCEPT !.Start = <<>>]

\* the caller puts the result it holds aside, with the arguments of the call
Keep ==
    /\ last # Idle
    /\ kept = NoKept
    /\ kept' = [model |-> last.model, args |-> ArgList(last.nargs), out |-> last.out,
                held  |-> IF last.out.kind = "info" THEN last.out.info ELSE NoInfo]
    /\ last' = Idle
    /\ UNCHANGED << t, p, lam, table, stdout, loads >>

\* the caller modifies the descriptor it has kept
ModifyDescriptor ==
    /\ kept.out.kind = "info"
    /\ kept.held = kept.out.info
    /\ kept' = [kept EXCEPT !.held = Cleared(kept.held)]
    /\ UNCHANGED << t, p, lam, table, stdout, loads, last >>

NextH == Next \/ Keep \/ ModifyDescriptor

SpecHist == InitH /\ [][NextH]_vars

\* ================================================================ claims

\* the call model(*args) made now
Run(model, args) ==
    CASE model = "bg_exp"        -> bg_exp(args)
      [] model = "bg_hom3d"      -> bg_hom3d(args)
      [] model = "bg_hom3dex"    -> bg_hom3dex(args, table)
      [] model = "bg_homfractal" -> bg_homfractal(args)
      [] model = "bg_strexp"     -> bg_strexp(args)
      [] model = "bg_prodstrexp" -> bg_prodstrexp(args)
      [] model = "bg_sumstrexp"  -> bg_sumstrexp(args)
      [] model = "bg_poly1"      -> bg_poly1(args)
      [] model = "bg_poly2"      -> bg_poly2(args)
      [] model = "bg_poly3"      -> bg_poly3(args)

Polys     == {"bg_poly1", "bg_poly2", "bg_poly3"}
StrFamily == {"bg_strexp", "bg_prodstrexp", "bg_sumstrexp"}

\* the held result is that of a compute-mode call / is a decay curve
Computed == last # Idle /\ last.nargs \in {2, 3}
GotCurve == last.out.kind = "curve"
\* the modulation depth of the held call
LamUsed == IF last.nargs = 2 THEN One ELSE lam.vals[1]
\* the descriptor of a model
InfoOf(model) == Run(model, <<>>).out.info
\* the vector lies within the Lower/Upper bounds of the model's descriptor
InBounds(model, v) ==
    LET info == InfoOf(model)
    IN  /\ Len(v) = Len(info.Lower)
        /\ \A k \in 1..Len(v) : ~RLt(v[k], info.Lower[k]) /\ ~RLt(info.Upper[k], v[k])

\* a0 + lam*a1*x + lam*a2*x^2 + ... from coefficient k on
RECURSIVE PolySum(_, _, _, _)
PolySum(a, l, x, k) ==
    IF k > Len(a) THEN Zero
    ELSE RAdd(RMul(IF k = 1 THEN One ELSE l, RMul(a[k], RPow(x, k - 1))),
              PolySum(a, l, x, k + 1))

\* C1: a curve of bg_poly1, bg_poly2 or bg_poly3 holds at each sample
\* a0 + lam*a1*|t| (+ lam*a2*|t|^2 (+ lam*a3*|t|^3)), for every parameter sequence
\* (integer-valued ones included) and every lam (fractional ones included).
C1_PolyScaledExactly ==
    (GotCurve /\ last.model \in Polys) =>
        \A i \in 1..Len(t.vals) :
            last.out.B[i] = Const(PolySum(p.vals, LamUsed, RAbs(t.vals[i]), 1))

\* C2 (as claimed): with the parameters within the descriptor's bounds, the decay
\* value of every model at a sample t = 0 is 1.
C2_UnitAtZero ==
    (GotCurve /\ InBounds(last.model, p.vals)) =>
        \A i \in 1..Len(t.vals) : t.vals[i] = Zero => last.out.B[i] = VOne

\* the positions of the stretch factors in the parameter vector
StretchAt(model) ==
    CASE model = "bg_strexp"     -> {2}
      [] model = "bg_prodstrexp" -> {2, 4}
      [] model = "bg_sumstrexp"  -> {2, 5}
      [] OTHER                   -> {}

\* C2 (amended): with the parameters within the descriptor's bounds, the decay
\* value at a sample t = 0 is 1 for bg_exp, bg_hom3d, bg_hom3dex, bg_homfractal and,
\* when every stretch factor is above 0, for bg_strexp, bg_prodstrexp, bg_sumstrexp;
\* for bg_poly1, bg_poly2, bg_poly3 it is the intercept a0.
C2_AtZeroAmended ==
    (GotCurve /\ InBounds(last.model, p.vals)) =>
        \A i \in 1..Len(t.vals) : t.vals[i] = Zero =>
            IF last.model \in Polys THEN last.out.B[i] = Const(p.vals[1])
            ELSE (\A k \in StretchAt(last.model) : RLt(Zero, p.vals[k]))
                     => last.out.B[i] = VOne

\* a sum of two stretched exponentials with positive stretch factors and distinct
\* decay terms was evaluated on an axis that holds t = 0 and a t # 0
C2_Witness ==
    /\ GotCurve /\ last.model = "bg_sumstrexp" /\ InBounds(last.model, p.vals)
    /\ RLt(Zero, p.vals[2]) /\ RLt(Zero, p.vals[5])
    /\ \E i, j \in 1..Len(t.vals) :
          /\ t.vals[i] = Zero /\ last.out.B[i] = VOne
          /\ t.vals[j] # Zero /\ last.out.B[j] # VOne

\* C3: a compute-mode call that succeeds returns one value per time-axis sample.
C3_OneValuePerSample ==
    GotCurve => Len(last.out.B) = Len(t.vals)

\* C4: a compute-mode call writes nothing to the standard output, leaves the
\* caller's arguments and the lookup table as they are, and invokes the provider of
\* the lookup table only in bg_hom3dex.
C4_ComputeStep ==
    (last'.nargs \in {2, 3} /\ last' # Idle) =>
        /\ stdout' = stdout
        /\ << t, p, lam, table >>' = << t, p, lam, table >>
        /\ (loads' # loads => last'.model = "bg_hom3dex")
C4_NoSideEffects == [][C4_ComputeStep]_vars

\* the parameter counts the claim lists
ClaimedNPar(model) ==
    CASE model \in {"bg_exp", "bg_hom3d"} -> 1
      [] model \in {"bg_hom3dex", "bg_homfractal", "bg_strexp", "bg_poly1"} -> 2
      [] model = "bg_poly2" -> 3
      [] model \in {"bg_prodstrexp", "bg_poly3"} -> 4
      [] model = "bg_sumstrexp" -> 5

\* C5: a compute-mode call whose parameter vector is shorter or longer than the
\* model's parameter count fails with the parameter-count-mismatch error, which
\* carries the expected and the received count, and returns no curve.
C5_WrongLengthRejected ==
    (Computed /\ Len(p.vals) # ClaimedNPar(last.model)) =>
        last.out = Raised("ValueError", ClaimedNPar(last.model), Len(p.vals))

\* the five-parameter model was called with six parameters and raised
C5_Witness ==
    /\ Computed /\ last.model = "bg_sumstrexp" /\ Len(p.vals) = 6
    /\ last.out.err = "ValueError" /\ last.out.want = 5 /\ last.out.got = 6

\* C6: a call with 0, 2 or 3 arguments never fails with the invalid-argument-count
\* error; a call with any other number of arguments fails with it and returns
\* neither a descriptor nor a curve.
C6_Arities ==
    last # Idle =>
        IF last.nargs \in {0, 2, 3} THEN last.out.err # "TypeError"
        ELSE last.out = Raised("TypeError", 0, last.nargs)

\* a call with four arguments whose first three are valid arguments raised
C6_Witness ==
    /\ last.model = "bg_strexp" /\ last.nargs = 4 /\ Len(p.vals) = 2
    /\ last.out.err = "TypeError"

\* a parameter vector of n floats
Probe(n) == Array("float", [i \in 1..n |-> One])

\* C7: the five fields of the descriptor a zero-argument call returns have one
\* length, and a compute-mode call of the same model raises the
\* parameter-count-mismatch error for exactly the vectors of another length.
C7_DescriptorLengths ==
    (last # Idle /\ last.nargs = 0) =>
        LET info == last.out.info
            n    == Len(info.Parameters)
        IN  /\ last.out.kind = "info"
            /\ n > 0
            /\ Len(info.Units) = n /\ Len(info.Start) = n
            /\ Len(info.Lower) = n /\ Len(info.Upper) = n
            /\ \A k \in 0..MaxPar :
                  (Run(last.model, << t, Probe(k), lam >>).out.err = "ValueError") <=> (k # n)

\* the descriptor of the five-parameter model was returned
C7_Witness ==
    /\ last.model = "bg_sumstrexp" /\ last.nargs = 0
    /\ last.out.kind = "info" /\ Len(last.out.info.Start) = 5

\* C8: the result of a two-argument call is the result of the three-argument call
\* with lam = 1 on the same time axis and parameters, and the other way round.
C8_DefaultLamIsOne ==
    Computed =>
        /\ last.nargs = 2 =>
              /\ last.out = Run(last.model, << t, p, Scalar("int", One) >>).out
              /\ last.out = Run(last.model, << t, p, Scalar("float", One) >>).out
        /\ (last.nargs = 3 /\ lam.vals[1] = One) =>
              last.out = Run(last.model, << t, p >>).out

\* a two-argument call returned a curve with a sample below 1
C8_Witness ==
    /\ Computed /\ last.nargs = 2 /\ last.model = "bg_exp" /\ GotCurve
    /\ \E i \in 1..Len(t.vals) : last.out.B[i] # VOne

\* C9: when the second parameter of bg_hom3dex is 0, every sample gets the
\* reduction factor 1 without dR (the division by the parameter) being computed,
\* the curve is exp(-lam*conc*K) with alpha = 1, and it is the same for every
\* lookup table.
C9_ZeroExclusion ==
    (GotCurve /\ last.model = "bg_hom3dex" /\ p.vals[2] = Zero) =>
        /\ Len(last.locals) = Len(t.vals)
        /\ \A i \in 1..Len(t.vals) :
              /\ last.locals[i].branch = "one"
              /\ last.locals[i].alpha = One
              /\ last.out.B[i] =
                    Exp(UK3D, RNeg(RMul(RMul(LamUsed, p.vals[1]), RAbs(t.vals[i]))))
        /\ \A tab \in Tables : bg_hom3dex(ArgList(last.nargs), tab).out = last.out

\* bg_hom3dex returned a decaying curve for a second parameter of 0
C9_Witness ==
    /\ GotCurve /\ last.model = "bg_hom3dex" /\ p.vals[2] = Zero
    /\ \E i \in 1..Len(t.vals) : t.vals[i] # Zero /\ last.out.B[i] # VOne

\* the time axis negated elementwise
Negated(x) == [x EXCEPT !.vals = [i \in 1..Len(x.vals) |-> RNeg(x.vals[i])]]

\* C10: a compute-mode call on the negated time axis gives the result of the call
\* on the time axis itself.
C10_EvenInTime ==
    Computed =>
        Run(last.model, [ArgList(last.nargs) EXCEPT ![1] = Negated(t)]).out = last.out

\* a curve was computed on an axis with a negative sample, where it decays
C10_Witness ==
    /\ Computed /\ GotCurve /\ last.model = "bg_hom3d"
    /\ \E i \in 1..Len(t.vals) : RLt(t.vals[i], Zero) /\ last.out.B[i] # VOne


\* ------------------------------------------------------------------ C11

\* the held result is that of a zero-argument call
Described == last # Idle /\ last.nargs = 0
\* the caller has kept the descriptor of the same model from an earlier call
KeptDescriptor == kept.model = last.model /\ kept.args = <<>>

C11_Fresh ==
    Described =>
        /\ last.out.kind = "info"
        /\ last.out.B = <<>> /\ last.locals = <<>>
        /\ KeptDescriptor => last.out.info = kept.out.info

C11_DescriptorStep ==
    (last = Idle /\ last' # Idle /\ last'.nargs = 0) =>
        /\ loads' = loads
        /\ stdout' = stdout
        /\ UNCHANGED << t, p, lam, table, kept >>

\* C11: every zero-argument call returns a descriptor with the field values of
\* the descriptor an earlier zero-argument call of the same model returned,
\* whatever compute-mode calls were made in between and whatever the caller did
\* to the descriptor it kept; the call computes no curve and no reduction
\* factor, writes nothing, invokes the lookup-table provider not at all and
\* leaves the caller's arguments and the table alone.
C11_DescriptorIdempotent == [](C11_Fresh) /\ [][C11_DescriptorStep]_vars

\* a second descriptor of bg_hom3dex, after a compute-mode call that loaded the
\* table and after the caller cleared Start in the first one
C11_Witness ==
    /\ Described /\ KeptDescriptor
    /\ last.model = "bg_hom3dex"
    /\ kept.held # kept.out.info
    /\ loads > 0


\* ------------------------------------------------------------------ C12

\* the argument written as a sequence: c as [c]
AsSequence(x) == Array(x.dtype, x.vals)
\* the arguments of the held call, every scalar one written as a length-1 sequence
SequenceArgs ==
    [i \in 1..last.nargs |-> IF i <= 2 THEN AsSequence(ArgList(last.nargs)[i])
                             ELSE ArgList(last.nargs)[i]]
OneParameter == {"bg_exp", "bg_hom3d"}

Exponent(v) == (CHOOSE x \in v : TRUE).a

\* C13: in a curve of bg_hom3d (concentration >= 0, lam > 0) a sample whose
\* |t| is not larger than that of another has a value that is not smaller:
\* the values are exp(K * a) with one constant K > 0, compared by a.
C13_MonotoneInAbsTime ==
    (Computed /\ GotCurve /\ last.model = "bg_hom3d"
        /\ ~RLt(p.vals[1], Zero) /\ RLt(Zero, LamUsed)) =>
        \A i, j \in 1..Len(t.vals) :
            ~RLt(RAbs(t.vals[j]), RAbs(t.vals[i])) =>
                ~RLt(Exponent(last.out.B[i]), Exponent(last.out.B[j]))

\* a curve over two samples of different |t|, the second one negative
C13_Witness ==
    /\ Computed /\ GotCurve /\ last.model = "bg_hom3d"
    /\ Len(t.vals) = 2
    /\ RLt(t.vals[2], Zero)
    /\ RLt(RAbs(t.vals[1]), RAbs(t.vals[2]))
    /\ RLt(Exponent(last.out.B[2]), Exponent(last.out.B[1]))


\* ------------------------------------------------------------------ C14

\* the held call failed one of the two checks of _parsargs
CheckFailed(call) == call # Idle /\ call.out.err \in {"TypeError", "ValueError"}

C14_Order ==
    /\ (last # Idle /\ last.nargs \notin {0, 2, 3}) =>
            last.out.err = "TypeError"
    /\ (Computed /\ p.kind = "scalar" /\ ClaimedNPar(last.model) > 1) =>
            last.out.err = "ValueError" /\ last.out.got = 1
    /\ CheckFailed(last) => last.out.B = <<>> /\ last.locals = <<>>

C14_FailedStep ==
    (last = Idle /\ CheckFailed(last')) =>
        /\ loads' = loads
        /\ stdout' = stdout
        /\ UNCHANGED << t, p, lam, table >>

\* C14: the argument-count check comes first (a call with a wrong number of
\* arguments raises the TypeError whatever the parameter is), the coercion
\* comes before the parameter-count check (a scalar parameter is counted as one
\* parameter), and a call that fails a check has computed no curve and no
\* reduction factor, written nothing and, in bg_hom3dex as elsewhere, not
\* invoked the lookup-table provider.
C14_ValidationFirst == [](C14_Order) /\ [][C14_FailedStep]_vars

\* bg_hom3dex(t, c, lam) with a scalar second argument raised the ValueError
\* and the provider has not been invoked
C14_Witness ==
    /\ CheckFailed(last) /\ last.out.err = "ValueError"
    /\ last.model = "bg_hom3dex" /\ last.nargs = 3
    /\ p.kind = "scalar"
    /\ loads = 0


\* ------------------------------------------------------------------ C15

\* dR = A*abs(t)/R**3 of a time sample of the held bg_hom3dex call
DROf(x) == RDiv(RMul(DipolarA, RAbs(x)), RPow(p.vals[2], 3))
\* the held result is a curve of bg_hom3dex with a non-zero second parameter
ExcludedVolume ==
    Computed /\ GotCurve /\ last.model = "bg_hom3dex" /\ p.vals[2] # Zero

\* C15: in bg_hom3dex with a non-zero second parameter every sample has a
\* reduction factor assigned by one branch: the table value interpolated at dR
\* when dR is strictly below the largest tabulated domain value, the asymptote
\* 1 - (3/(2*pi))*sqrt(3)/dR when dR is equal to it or above.
C15_TwoBranches ==
    ExcludedVolume =>
        /\ Len(last.locals) = Len(t.vals)
        /\ \A i \in 1..Len(t.vals) :
              LET dR == DROf(t.vals[i])
                  f  == last.locals[i]
              IN  IF RLt(dR, max(table.dR))
                  THEN f.branch = "small" /\ f.alpha = interp(dR, table.dR, table.alpha)
                  ELSE f.branch = "large" /\ f.alpha = RSub(One, RDiv(AsymCoef, dR))

\* one call with a sample exactly at the end of the table and a sample below it
C15_Witness ==
    /\ ExcludedVolume
    /\ \E i, j \in 1..Len(t.vals) :
          /\ DROf(t.vals[i]) = max(table.dR) /\ last.locals[i].branch = "large"
          /\ last.locals[j].branch = "small"


\* ------------------------------------------------------------------ C16

\* exp((4*pi/3)*c_const*Lambda*lam*conc*D^(d/3)*|x*1e-6|^(d/3)) with the
\* constants of the case d = 3, and with those of the other case: Lambda the
\* value of the integral (the first entry of what the quadrature returns)
FractalSample(d, l, conc, x) ==
    IF d = Num(3) THEN Exp(UKF3, RNeg(RMul(RMul(l, conc), RAbs(x))))
    ELSE FracSample(d, 1, l, conc, x)

\* C16: a compute-mode call of bg_homfractal with two parameters returns a
\* curve with, at each time sample, the value of the formula: with the
\* closed-form constants when d is exactly 3, and for every other d with
\* cos(d*pi/6)*Gamma(-d/3) and the single value of the integral.
C16_FractalConstants ==
    (Computed /\ last.model = "bg_homfractal"
        /\ p.kind = "array" /\ Len(p.vals) = 2) =>
        /\ GotCurve
        /\ Len(last.out.B) = Len(t.vals)
        /\ \A i \in 1..Len(t.vals) :
              last.out.B[i] = FractalSample(p.vals[2], LamUsed, p.vals[1], t.vals[i])


\* ------------------------------------------------------------------ C17

\* C17: over any sequence of calls the lookup-table provider is invoked at
\* most once, and no call changes the contents of the table.
C17_LoadedOnce == [](loads <= 1) /\ [][table' = table]_vars


\* ------------------------------------------------------------------ C18

\* the held result is that of the compute-mode call the caller made before,
\* with equal arguments
Repeated ==
    /\ Computed
    /\ kept.model = last.model
    /\ kept.args = ArgList(last.nargs)

\* C18: a compute-mode call returns what an earlier call of the same model with
\* equal (time axis, parameter vector, lam) returned, the same curve or the
\* same error, whatever calls of any model, failing ones included, were made
\* before the first and between the two.
C18_Deterministic == Repeated => last.out = kept.out

\* bg_hom3dex returned a curve twice, and bg_poly1 was called in between or
\* before
C18_Witness ==
    /\ Repeated /\ GotCurve
    /\ last.model = "bg_hom3dex"
    /\ loads = 2
    /\ stdout # <<>>


\* ------------------------------------------------------------------ C19

\* a call of bg_poly1, bg_poly2 or bg_poly3 returns or raises
PolyReturns == last = Idle /\ last' # Idle /\ last'.model \in Polys

\* C19: when a polynomial model returns, the caller's parameter vector, time
\* axis and lam hold the values they held before the call, in the same order.
C19_ArgumentsUntouched == [][PolyReturns => UNCHANGED << t, p, lam >>]_vars

\* a polynomial model returned a curve for a parameter array whose reversed
\* and scaled coefficients differ from it, which the caller still holds as it was
C19_Witness ==
    /\ Computed /\ GotCurve
    /\ last.model \in Polys
    /\ p.kind = "array"
    /\ Reverse(ScaledCoefs(p, LamUsed)) # p.vals
    /\ Reverse(p.vals) # p.vals

====
